---------------------------- MODULE Spec2Model ----------------------------
(***************************************************************************)
(* The resistor-diode circuit of circuit.py (fixed current source) and     *)
(* circuitBat.py (fixed voltage source): the component equations, the      *)
(* wiring of the Circuit group and of the top-level model, and the run of  *)
(* each script under the framework's Newton solver.                        *)
(*                                                                         *)
(* Numbers.  The scripts compute in double precision; the model computes   *)
(* in fixed point: voltages are integers in millivolts, currents and       *)
(* current residuals are integers in microamperes, and a quotient is       *)
(* truncated toward zero to that resolution.  np.exp spans too many        *)
(* decades for fixed point, so the diode works on decimal floating point   *)
(* values [m, e] (m * 10^e, six significant digits) and its result is      *)
(* converted to microamperes when it is stored in outputs['I'].            *)
(*                                                                         *)
(* The Newton solver, its line search and the BalanceComp/ExecComp         *)
(* components belong to the framework.  The solver is modelled as a step   *)
(* that may move the unknowns to any point of a finite grid; the           *)
(* iteration caps are the options the scripts set.                         *)
(***************************************************************************)
EXTENDS Integers, Sequences, FiniteSets, TLC

VARIABLES
    file,    \* which script runs: "circuit" or "circuitBat"
    out,     \* the framework's output vector: output name -> value
    res,     \* the residual vector of the implicit components
    evald,   \* components evaluated since the unknowns last changed
    pc,      \* position of the run in the evaluation sweep
    iter,    \* Newton iterations performed
    ls,      \* line search steps performed in the current iteration
    status,  \* "running", "converged", "failed" (iteration cap) or "error"
    probe    \* one evaluation of a free-standing Node (see ProbeNode)

vars == <<file, out, res, evald, pc, iter, ls, status, probe>>

Files == {"circuit", "circuitBat"}

---------------------------------------------------------------------------
(* Arithmetic *)

TruncDiv(a, b) == IF a >= 0 THEN a \div b ELSE -((-a) \div b)

RECURSIVE Pow10(_)
Pow10(n) == IF n = 0 THEN 1 ELSE 10 * Pow10(n - 1)

RECURSIVE SumSeq(_)
SumSeq(s) == IF s = <<>> THEN 0 ELSE Head(s) + SumSeq(Tail(s))

\* x - 1 on a six-digit decimal float x = [m, e] with 10^5 <= m < 10^6,
\* rounded to six digits.
FSub1(x) ==
    IF x.e >= 1 THEN x
    ELSE IF x.e >= -5 THEN [m |-> x.m - Pow10(-x.e), e |-> x.e]
    ELSE [m |-> (IF -x.e - 6 <= 5 THEN x.m \div Pow10(-x.e - 6) ELSE 0)
                  - Pow10(6),
          e |-> -6]

FMul(a, b) == [m |-> a.m * b.m, e |-> a.e + b.e]

\* A current in amperes (decimal float) as microamperes, truncated.
ToMicroAmp(x) ==
    IF x.e + 6 >= 0 THEN x.m * Pow10(x.e + 6)
    ELSE IF -(x.e + 6) > 9 THEN 0
    ELSE TruncDiv(x.m, Pow10(-(x.e + 6)))

---------------------------------------------------------------------------
(* Options and literal values of the scripts *)

R1_R == 100
R2_R == 10000
\* Diode defaults: Is = 1e-15 A, Vt = 0.025875 V (here in microvolts)
Is == [m |-> 1, e |-> -15]
Vt == 25875
\* source.I = 0.1 A, ground.V = 0 V, batt.V = 1.5 V
SourceI == 100000
GroundV == 0
BattV == 1500
\* Initial guesses of the node voltages
CircuitN1V0 == 10000
CircuitN2V0 == 1000
BatN1V0 == 9800
BatN2V0 == 700
\* Solver options
maxiter == 20
ls_maxiter == 10

\* Node(n_in=1, n_out=2) and Node() with the declared defaults n_in = n_out = 1
NodeOptions(node) ==
    IF node = "n1" THEN [n_in |-> 1, n_out |-> 2] ELSE [n_in |-> 1, n_out |-> 1]

\* Names bound at module level by the import statements of each script.
ImportsCircuit == {"om"}
ImportsCircuitBat == {"division", "print_function", "om", "np"}
Imports(f) == IF f = "circuit" THEN ImportsCircuit ELSE ImportsCircuitBat

---------------------------------------------------------------------------
(* Component equations *)

\* Faulty variant: the voltage difference taken the wrong way round
ResistorCompute_Reversed(R, V_in, V_out) ==
    LET deltaV == V_out - V_in
    IN  TruncDiv(deltaV * 1000, R)

\* Resistor.compute: outputs['I'] = (V_in - V_out) / R
ResistorCompute(R, V_in, V_out) ==
    LET deltaV == V_in - V_out
    IN  TruncDiv(deltaV * 1000, R)

\* np.exp(deltaV / Vt), deltaV in millivolts, to six significant digits.
\* exp(0) is exactly 1; the other arguments the model evaluates are tabulated
\* for the thermal voltage the scripts declare.
NpExp(deltaV, vt) ==
    IF deltaV = 0 THEN [m |-> 100000, e |-> -5]
    ELSE CASE vt = 25875 /\ deltaV = -10000 -> [m |-> 143457, e |-> -173]
           [] vt = 25875 /\ deltaV = 651    -> [m |-> 844495, e |-> 5]
           [] vt = 25875 /\ deltaV = 700    -> [m |-> 561086, e |-> 6]
           [] vt = 25875 /\ deltaV = 1000   -> [m |-> 608594, e |-> 11]

\* The Shockley equation as both scripts write it:
\* Is * (np.exp(deltaV / Vt) - 1)
Shockley(V_in, V_out) ==
    LET deltaV == V_in - V_out
    IN  ToMicroAmp(FMul(Is, FSub1(NpExp(deltaV, Vt))))

\* Diode.compute.  The name np must be bound in the script for the
\* expression to evaluate; otherwise the call raises NameError and assigns
\* nothing.
DiodeCompute(f, V_in, V_out) ==
    IF "np" \in Imports(f)
    THEN [ok |-> TRUE, I |-> Shockley(V_in, V_out)]
    ELSE [ok |-> FALSE, I |-> 0]

\* Node.apply_nonlinear of circuit.py: every current is added.
NodeApplyNonlinear(I_in, I_out) == 0 + SumSeq(I_in) + SumSeq(I_out)

\* Node.apply_nonlinear of circuitBat.py: outgoing currents are subtracted.
NodeApplyNonlinearBat(I_in, I_out) == 0 + SumSeq(I_in) - SumSeq(I_out)

NodeResidual(f, I_in, I_out) ==
    IF f = "circuit" THEN NodeApplyNonlinear(I_in, I_out)
    ELSE NodeApplyNonlinearBat(I_in, I_out)

\* ExecComp('dV = V1 - V2')
DeltaV(V1, V2) == V1 - V2

\* BalanceComp residual of the balance 'I': lhs - rhs (mult defaults to 1)
BalanceResidual(lhs, rhs) == lhs - rhs

---------------------------------------------------------------------------
(* Wiring *)

OutputNames ==
    {"ground.V", "source.I", "batt.V", "batt_balance.I", "batt_deltaV.dV",
     "circuit.n1.V", "circuit.n2.V",
     "circuit.R1.I", "circuit.R2.I", "circuit.D1.I"}

ResidualNames == {"circuit.n1", "circuit.n2", "batt_balance"}

\* f'I_in:{i}' and f'I_out:{i}' of Node.setup, under the subsystem's path
PortName(node, dir, i) == "circuit." \o node \o ".I_" \o dir \o ":" \o ToString(i)

NodePorts(node, dir) ==
    LET n == IF dir = "in" THEN NodeOptions(node).n_in ELSE NodeOptions(node).n_out
    IN  [i \in 1..n |-> PortName(node, dir, i - 1)]

\* Range of a sequence
Range(s) == {s[i] : i \in DOMAIN s}

\* The input ports the components of the Circuit group declare in setup
CircuitInputPorts ==
    Range(NodePorts("n1", "in")) \cup Range(NodePorts("n1", "out"))
    \cup Range(NodePorts("n2", "in")) \cup Range(NodePorts("n2", "out"))
    \cup {"circuit.R1.V_in", "circuit.R1.V_out",
          "circuit.R2.V_in", "circuit.R2.V_out",
          "circuit.D1.V_in", "circuit.D1.V_out"}

\* promotes_inputs of Circuit.setup in circuit.py: <<input, promoted name>>
CircuitPromotes ==
    {<<"circuit.n1.I_in:0", "circuit.I_in">>,
     <<"circuit.R1.V_out", "circuit.Vg">>,
     <<"circuit.D1.V_out", "circuit.Vg">>}

\* promotes_inputs of Circuit.setup in circuitBat.py
CircuitBatPromotes ==
    {<<"circuit.n1.I_in:0", "circuit.I_in">>,
     <<"circuit.R1.V_out", "circuit.Vg">>,
     <<"circuit.D1.V_out", "circuit.Vg">>}

\* self.connect calls of Circuit.setup in circuit.py: <<source, target>>
CircuitConnect ==
    {<<"circuit.n1.V", "circuit.R1.V_in">>,
     <<"circuit.n1.V", "circuit.R2.V_in">>,
     <<"circuit.R1.I", "circuit.n1.I_out:0">>,
     <<"circuit.R2.I", "circuit.n1.I_out:1">>,
     <<"circuit.n2.V", "circuit.R2.V_out">>,
     <<"circuit.n2.V", "circuit.D1.V_in">>,
     <<"circuit.R2.I", "circuit.n2.I_in:0">>,
     <<"circuit.D1.I", "circuit.n2.I_out:0">>}

\* Faulty variant: the connection of R2.I to the second outgoing port of n1 left out
CircuitBatConnect_Missing ==
    {<<"circuit.n1.V", "circuit.R1.V_in">>,
     <<"circuit.n1.V", "circuit.R2.V_in">>,
     <<"circuit.R1.I", "circuit.n1.I_out:0">>,
     <<"circuit.n2.V", "circuit.R2.V_out">>,
     <<"circuit.n2.V", "circuit.D1.V_in">>,
     <<"circuit.R2.I", "circuit.n2.I_in:0">>,
     <<"circuit.D1.I", "circuit.n2.I_out:0">>}

\* self.connect calls of Circuit.setup in circuitBat.py
CircuitBatConnect ==
    {<<"circuit.n1.V", "circuit.R1.V_in">>,
     <<"circuit.n1.V", "circuit.R2.V_in">>,
     <<"circuit.R1.I", "circuit.n1.I_out:0">>,
     <<"circuit.R2.I", "circuit.n1.I_out:1">>,
     <<"circuit.n2.V", "circuit.R2.V_out">>,
     <<"circuit.n2.V", "circuit.D1.V_in">>,
     <<"circuit.R2.I", "circuit.n2.I_in:0">>,
     <<"circuit.D1.I", "circuit.n2.I_out:0">>}

\* model.connect calls of circuit.py
ModelConnect ==
    {<<"source.I", "circuit.I_in">>,
     <<"ground.V", "circuit.Vg">>}

\* Faulty variant: the right-hand side of the balance wired to the ground voltage
ModelBatConnect_RhsGround ==
    {<<"batt_balance.I", "circuit.I_in">>,
     <<"ground.V", "circuit.Vg">>,
     <<"ground.V", "batt_deltaV.V2">>,
     <<"circuit.n1.V", "batt_deltaV.V1">>,
     <<"ground.V", "batt_balance.rhs:I">>,
     <<"batt_deltaV.dV", "batt_balance.lhs:I">>}

\* model.connect calls of circuitBat.py
ModelBatConnect ==
    {<<"batt_balance.I", "circuit.I_in">>,
     <<"ground.V", "circuit.Vg">>,
     <<"ground.V", "batt_deltaV.V2">>,
     <<"circuit.n1.V", "batt_deltaV.V1">>,
     <<"batt.V", "batt_balance.rhs:I">>,
     <<"batt_deltaV.dV", "batt_balance.lhs:I">>}

Promotes(f) == IF f = "circuit" THEN CircuitPromotes ELSE CircuitBatPromotes

Connections(f) ==
    IF f = "circuit" THEN CircuitConnect \cup ModelConnect
    ELSE CircuitBatConnect \cup ModelBatConnect

\* The name a connection must target to drive the input: its promoted name,
\* or the input's own path when it is not promoted.
Target(f, port) ==
    IF \E p \in Promotes(f) : p[1] = port
    THEN (CHOOSE p \in Promotes(f) : p[1] = port)[2]
    ELSE port

Drivers(f, port) == {c[1] : c \in {d \in Connections(f) : d[2] = Target(f, port)}}

\* The value a component reads on an input: the value of the output that
\* drives it.  No input of the two models is undriven; one that were would
\* read a value no output sets, here 0.
In(port) ==
    IF Drivers(file, port) = {} THEN 0
    ELSE out[CHOOSE s \in Drivers(file, port) : TRUE]

NodeCurrents(node, dir) ==
    LET ports == NodePorts(node, dir)
    IN  [i \in DOMAIN ports |-> In(ports[i])]

---------------------------------------------------------------------------
(* Evaluation of one component: what the framework's call of compute or    *)
(* apply_nonlinear does to the output and residual vectors.                *)

\* R1 = Resistor(R=100.)
ComputeR1 ==
    /\ out' = [out EXCEPT !["circuit.R1.I"] =
                  ResistorCompute(R1_R, In("circuit.R1.V_in"), In("circuit.R1.V_out"))]
    /\ UNCHANGED <<res, status>>

\* R2 = Resistor(R=10000.)
ComputeR2 ==
    /\ out' = [out EXCEPT !["circuit.R2.I"] =
                  ResistorCompute(R2_R, In("circuit.R2.V_in"), In("circuit.R2.V_out"))]
    /\ UNCHANGED <<res, status>>

\* D1 = Diode(); an exception raised by compute ends the run
ComputeD1 ==
    LET r == DiodeCompute(file, In("circuit.D1.V_in"), In("circuit.D1.V_out"))
    IN  IF r.ok
        THEN /\ out' = [out EXCEPT !["circuit.D1.I"] = r.I]
             /\ UNCHANGED <<res, status>>
        ELSE /\ status' = "error"
             /\ UNCHANGED <<out, res>>

\* Faulty variant: apply_nonlinear also stores the residual in the node's voltage
ApplyN1_Clobber ==
    LET r == NodeResidual(file, NodeCurrents("n1", "in"), NodeCurrents("n1", "out"))
    IN  /\ res' = [res EXCEPT !["circuit.n1"] = r]
        /\ out' = [out EXCEPT !["circuit.n1.V"] = r]
        /\ UNCHANGED status

\* n1 = Node(n_in=1, n_out=2)
ApplyN1 ==
    /\ res' = [res EXCEPT !["circuit.n1"] =
                  NodeResidual(file, NodeCurrents("n1", "in"), NodeCurrents("n1", "out"))]
    /\ UNCHANGED <<out, status>>

\* n2 = Node()
ApplyN2 ==
    /\ res' = [res EXCEPT !["circuit.n2"] =
                  NodeResidual(file, NodeCurrents("n2", "in"), NodeCurrents("n2", "out"))]
    /\ UNCHANGED <<out, status>>

\* batt_deltaV
ComputeDV ==
    /\ out' = [out EXCEPT !["batt_deltaV.dV"] =
                  DeltaV(In("batt_deltaV.V1"), In("batt_deltaV.V2"))]
    /\ UNCHANGED <<res, status>>

\* batt_balance
ApplyBalance ==
    /\ res' = [res EXCEPT !["batt_balance"] =
                  BalanceResidual(In("batt_balance.lhs:I"), In("batt_balance.rhs:I"))]
    /\ UNCHANGED <<out, status>>

---------------------------------------------------------------------------
(* The run of a script: prob.setup(), the initial guesses, run_model()     *)

\* Components in the order one sweep evaluates them: the explicit
\* components of the group in the order they are added, then the residuals
\* that read them.
Sweep(f) ==
    IF f = "circuit" THEN <<"R1", "R2", "D1", "n1", "n2">>
    ELSE <<"R1", "R2", "D1", "dV", "n1", "n2", "bal">>

Comps(f) == Range(Sweep(f))

After(f, c) ==
    LET i == CHOOSE k \in DOMAIN Sweep(f) : Sweep(f)[k] = c
    IN  IF i = Len(Sweep(f)) THEN "check" ELSE Sweep(f)[i + 1]

\* Residuals the Newton solver of the script drives to zero
Residuals(f) ==
    IF f = "circuit" THEN {"circuit.n1", "circuit.n2"}
    ELSE {"circuit.n1", "circuit.n2", "batt_balance"}

\* Points the solver may move the unknowns to
V1Grid == {0, 1500}
V2Grid == {0, 651}
IGrid == {0, 15084}

NoProbe == [n_in |-> 0, n_out |-> 0, I_in |-> <<>>, I_out |-> <<>>, V |-> 0, done |-> FALSE]

\* The output vector after setup and the assignments of the initial guesses
InitialOutputs(f, i0) ==
    [n \in OutputNames |->
        CASE n = "ground.V" -> GroundV
          [] n = "source.I" -> IF f = "circuit" THEN SourceI ELSE 0
          [] n = "batt.V" -> IF f = "circuit" THEN 0 ELSE BattV
          [] n = "batt_balance.I" -> IF f = "circuit" THEN 0 ELSE i0
          [] n = "circuit.n1.V" -> IF f = "circuit" THEN CircuitN1V0 ELSE BatN1V0
          [] n = "circuit.n2.V" -> IF f = "circuit" THEN CircuitN2V0 ELSE BatN2V0
          [] OTHER -> 0]

Init ==
    /\ file \in Files
    /\ \E i0 \in IGrid : out = InitialOutputs(file, i0)
    /\ res = [r \in ResidualNames |-> 0]
    /\ evald = {}
    /\ pc = Sweep(file)[1]
    /\ iter = 0
    /\ ls = 0
    /\ status = "running"
    /\ probe = NoProbe

Advance(c) ==
    /\ evald' = IF status' = "error" THEN evald ELSE evald \cup {c}
    /\ pc' = IF status' = "error" THEN "halt" ELSE After(file, c)
    /\ UNCHANGED <<file, iter, ls, probe>>

RunR1 == status = "running" /\ pc = "R1" /\ ComputeR1 /\ Advance("R1")
RunR2 == status = "running" /\ pc = "R2" /\ ComputeR2 /\ Advance("R2")
RunD1 == status = "running" /\ pc = "D1" /\ ComputeD1 /\ Advance("D1")
RunN1 == status = "running" /\ pc = "n1" /\ ApplyN1 /\ Advance("n1")
RunN2 == status = "running" /\ pc = "n2" /\ ApplyN2 /\ Advance("n2")
RunDV == status = "running" /\ pc = "dV" /\ ComputeDV /\ Advance("dV")
RunBal == status = "running" /\ pc = "bal" /\ ApplyBalance /\ Advance("bal")

NewtonConverged == \A r \in Residuals(file) : res[r] = 0

\* The solver moves its unknowns: the node voltages, and in circuitBat.py
\* the source current batt_balance.I as well.
MoveUnknowns ==
    \E v1 \in V1Grid, v2 \in V2Grid, i \in IGrid :
        out' = [out EXCEPT !["circuit.n1.V"] = v1,
                           !["circuit.n2.V"] = v2,
                           !["batt_balance.I"] = IF file = "circuit" THEN @ ELSE i]

Converge ==
    /\ status = "running" /\ pc = "check"
    /\ NewtonConverged
    /\ status' = "converged"
    /\ pc' = "halt"
    /\ UNCHANGED <<file, out, res, evald, iter, ls, probe>>

\* maxiter iterations done and still not converged
IterationCap ==
    /\ status = "running" /\ pc = "check"
    /\ ~NewtonConverged
    /\ iter >= maxiter
    /\ status' = "failed"
    /\ pc' = "halt"
    /\ UNCHANGED <<file, out, res, evald, iter, ls, probe>>

\* Faulty variant: the iteration cap tested off by one
NewtonStep_OffByOne ==
    /\ status = "running" /\ pc = "check"
    /\ ~NewtonConverged
    /\ iter <= maxiter
    /\ MoveUnknowns
    /\ iter' = iter + 1
    /\ ls' = 0
    /\ evald' = {}
    /\ pc' = Sweep(file)[1]
    /\ UNCHANGED <<file, res, status, probe>>

\* One Newton iteration, allowed while fewer than maxiter have been done
NewtonStep ==
    /\ status = "running" /\ pc = "check"
    /\ ~NewtonConverged
    /\ iter < maxiter
    /\ MoveUnknowns
    /\ iter' = iter + 1
    /\ ls' = 0
    /\ evald' = {}
    /\ pc' = Sweep(file)[1]
    /\ UNCHANGED <<file, res, status, probe>>

\* newton.linesearch = ArmijoGoldsteinLS() of circuitBat.py: after a Newton
\* step the line search may move the unknowns again, at most ls_maxiter times
LineSearchStep ==
    /\ status = "running" /\ pc = "check"
    /\ file = "circuitBat"
    /\ ~NewtonConverged
    /\ iter >= 1
    /\ ls < ls_maxiter
    /\ MoveUnknowns
    /\ ls' = ls + 1
    /\ evald' = {}
    /\ pc' = Sweep(file)[1]
    /\ UNCHANGED <<file, res, status, iter, probe>>

Next ==
    \/ RunR1 \/ RunR2 \/ RunD1 \/ RunN1 \/ RunN2 \/ RunDV \/ RunBal
    \/ Converge \/ IterationCap \/ NewtonStep \/ LineSearchStep

Spec == Init /\ [][Next]_vars

---------------------------------------------------------------------------
(* The component equations on arbitrary iterates.  A Newton solver treats  *)
(* every output as an unknown, so an iterate is any output vector; the     *)
(* components are then evaluated on it in any order.  A free-standing Node *)
(* with any number of ports is evaluated as well.                          *)

MaxPorts == 2

EvalV1 == {-10000, 0, 5000}
EvalV2 == {-10000, 0, 700}
EvalI == {0, 1000000}
ProbeCurrents == {-100, 300}

EvalOutputs(f, v1, v2, r1, r2, d1, i0) ==
    [InitialOutputs(f, i0) EXCEPT !["circuit.n1.V"] = v1,
                                  !["circuit.n2.V"] = v2,
                                  !["circuit.R1.I"] = r1,
                                  !["circuit.R2.I"] = r2,
                                  !["circuit.D1.I"] = d1]

InitEval ==
    /\ file \in Files
    /\ \E v1 \in EvalV1, v2 \in EvalV2, r1 \in EvalI, r2 \in EvalI, d1 \in EvalI, i0 \in IGrid :
          out = EvalOutputs(file, v1, v2, r1, r2, d1, i0)
    /\ res = [r \in ResidualNames |-> 0]
    /\ evald = {}
    /\ pc = "eval"
    /\ iter = 0
    /\ ls = 0
    /\ status = "running"
    /\ probe = NoProbe

\* Components whose inputs the output of c drives
Downstream(c) ==
    CASE c = "R1" -> {"n1"}
      [] c = "R2" -> {"n1", "n2"}
      [] c = "D1" -> {"n2"}
      [] c = "dV" -> {"bal"}
      [] OTHER -> {}

Evaluated(c) ==
    /\ c \in Comps(file)
    /\ evald' = IF status' = "error" THEN evald ELSE (evald \cup {c}) \ Downstream(c)
    /\ UNCHANGED <<file, pc, iter, ls, probe>>

Evaluable == status = "running" /\ pc = "eval" /\ ~probe.done

EvalR1 == Evaluable /\ ComputeR1 /\ Evaluated("R1")
EvalR2 == Evaluable /\ ComputeR2 /\ Evaluated("R2")
EvalD1 == Evaluable /\ ComputeD1 /\ Evaluated("D1")
EvalN1 == Evaluable /\ ApplyN1 /\ Evaluated("n1")
EvalN2 == Evaluable /\ ApplyN2 /\ Evaluated("n2")
EvalDV == Evaluable /\ ComputeDV /\ Evaluated("dV")
EvalBal == Evaluable /\ ApplyBalance /\ Evaluated("bal")

\* Node(n_in, n_out).apply_nonlinear of the script, on given port currents
ProbeNode ==
    /\ Evaluable
    /\ evald = {}
    /\ \E n_in \in 0..MaxPorts, n_out \in 0..MaxPorts :
         \E I_in \in [1..n_in -> ProbeCurrents], I_out \in [1..n_out -> ProbeCurrents] :
            probe' = [n_in |-> n_in, n_out |-> n_out, I_in |-> I_in, I_out |-> I_out,
                      V |-> NodeResidual(file, I_in, I_out), done |-> TRUE]
    /\ UNCHANGED <<file, out, res, evald, pc, iter, ls, status>>

NextEval ==
    \/ EvalR1 \/ EvalR2 \/ EvalD1 \/ EvalN1 \/ EvalN2 \/ EvalDV \/ EvalBal
    \/ ProbeNode

SpecEval == InitEval /\ [][NextEval]_vars

---------------------------------------------------------------------------
(* Properties *)

Abs(x) == IF x < 0 THEN -x ELSE x

\* C1: in both scripts Node.apply_nonlinear sets the residual of V to the
\* sum of the incoming currents minus the sum of the outgoing currents, for
\* every n_in, n_out and all port currents (stated on the free-standing Node
\* and on the nodes n1 and n2 of the circuit).
C1_ResidualIsInMinusOut ==
    /\ probe.done => probe.V = SumSeq(probe.I_in) - SumSeq(probe.I_out)
    /\ "n1" \in evald =>
          res["circuit.n1"] = In("circuit.n1.I_in:0")
                              - (out["circuit.R1.I"] + out["circuit.R2.I"])
    /\ "n2" \in evald =>
          res["circuit.n2"] = out["circuit.R2.I"] - out["circuit.D1.I"]

\* C2: in the base circuit (circuit.py, I_in = 0.1 A, ground = 0 V) every
\* state in which both node residuals are zero has R1.I + R2.I = I_in = 0.1 A
\* and R2.I = D1.I (stated for the states whose resistor currents are those
\* of the node voltages).
C2_BaseCircuitBalance ==
    ( /\ file = "circuit"
      /\ {"R1", "R2", "n1", "n2"} \subseteq evald
      /\ res["circuit.n1"] = 0
      /\ res["circuit.n2"] = 0 )
    => /\ In("circuit.n1.I_in:0") = 100000
       /\ out["circuit.R1.I"] + out["circuit.R2.I"] = In("circuit.n1.I_in:0")
       /\ out["circuit.R2.I"] = out["circuit.D1.I"]

\* C3: in the battery variant every converged state (both node residuals and
\* the batt_balance residual zero) has n1.V - ground.V = 1.5 V, and the
\* current entering node 1 is the solved unknown batt_balance.I, equal to the
\* current leaving through R1 and R2.
C3_BatteryVoltage ==
    (file = "circuitBat" /\ status = "converged")
    => /\ out["circuit.n1.V"] - out["ground.V"] = 1500
       /\ In("circuit.n1.I_in:0") = out["batt_balance.I"]
       /\ out["batt_balance.I"] = out["circuit.R1.I"] + out["circuit.R2.I"]

\* A converged run of the battery variant with a nonzero source current
C3_Witness ==
    /\ file = "circuitBat" /\ status = "converged"
    /\ iter >= 1
    /\ out["batt_balance.I"] = 15084
    /\ out["circuit.D1.I"] = 84

\* C4: in both scripts Diode.compute sets output I to
\* Is * (exp((V_in - V_out) / Vt) - 1) for every pair of input voltages, and
\* so to exactly 0 when V_in = V_out.
C4_DiodeSetsCurrent ==
    /\ status # "error"
    /\ "D1" \in evald =>
          /\ out["circuit.D1.I"] = Shockley(In("circuit.D1.V_in"), In("circuit.D1.V_out"))
          /\ In("circuit.D1.V_in") = In("circuit.D1.V_out") => out["circuit.D1.I"] = 0

\* C5: Resistor.compute sets output I to (V_in - V_out) / R for every pair of
\* input voltages and each configured R (to the microampere, exactly when R
\* divides); R = 100 and V_in - V_out = 5 V give 0.05 A; the sign of I
\* follows the sign of V_in - V_out.
C5_Ohm(r, R) ==
    LET I == out["circuit." \o r \o ".I"]
        deltaV == In("circuit." \o r \o ".V_in") - In("circuit." \o r \o ".V_out")
    IN  r \in evald =>
          /\ Abs(I * R - deltaV * 1000) < R
          /\ (deltaV * 1000) % R = 0 => I * R = deltaV * 1000
          /\ deltaV > 0 => I >= 0
          /\ deltaV < 0 => I <= 0
          /\ Abs(deltaV) * 1000 >= R => I * deltaV > 0
          /\ (R = 100 /\ deltaV = 5000) => I = 50000

C5_ResistorOhm == C5_Ohm("R1", 100) /\ C5_Ohm("R2", 10000)

\* R1 evaluated with 5 V across it, and R2 with a negative voltage across it
C5_Witness ==
    /\ {"R1", "R2"} \subseteq evald
    /\ out["circuit.n1.V"] - out["ground.V"] = 5000
    /\ out["circuit.R1.I"] = 50000
    /\ out["circuit.n1.V"] - out["circuit.n2.V"] = 4300
    /\ out["circuit.R2.I"] = 430

\* C6: the Circuit group has the same wiring in both scripts: n1 has one
\* incoming port (the source current) and two outgoing ports fed by R1.I and
\* R2.I; n2 has one incoming port fed by R2.I and one outgoing port fed by
\* D1.I; n1.V drives R1.V_in and R2.V_in; n2.V drives R2.V_out and D1.V_in;
\* the ground voltage drives R1.V_out and D1.V_out; every input port is
\* driven by exactly one source (stated of the script that runs, which may
\* be either).
C6_CircuitWiring ==
    LET f == file
    IN  /\ CircuitConnect = CircuitBatConnect
        /\ CircuitPromotes = CircuitBatPromotes
        /\ \A p \in CircuitInputPorts : Cardinality(Drivers(f, p)) = 1
        /\ CircuitInputPorts =
              {"circuit.n1.I_in:0", "circuit.n1.I_out:0", "circuit.n1.I_out:1",
               "circuit.n2.I_in:0", "circuit.n2.I_out:0",
               "circuit.R1.V_in", "circuit.R1.V_out", "circuit.R2.V_in",
               "circuit.R2.V_out", "circuit.D1.V_in", "circuit.D1.V_out"}
        /\ Drivers(f, "circuit.n1.I_in:0") =
              {IF f = "circuit" THEN "source.I" ELSE "batt_balance.I"}
        /\ Drivers(f, "circuit.n1.I_out:0") = {"circuit.R1.I"}
        /\ Drivers(f, "circuit.n1.I_out:1") = {"circuit.R2.I"}
        /\ Drivers(f, "circuit.n2.I_in:0") = {"circuit.R2.I"}
        /\ Drivers(f, "circuit.n2.I_out:0") = {"circuit.D1.I"}
        /\ Drivers(f, "circuit.R1.V_in") = {"circuit.n1.V"}
        /\ Drivers(f, "circuit.R2.V_in") = {"circuit.n1.V"}
        /\ Drivers(f, "circuit.R2.V_out") = {"circuit.n2.V"}
        /\ Drivers(f, "circuit.D1.V_in") = {"circuit.n2.V"}
        /\ Drivers(f, "circuit.R1.V_out") = {"ground.V"}
        /\ Drivers(f, "circuit.D1.V_out") = {"ground.V"}

\* A full sweep of the battery variant has read every port through the wiring
C6_Witness ==
    /\ file = "circuitBat" /\ pc = "check"
    /\ out["circuit.n1.V"] = 9800 /\ out["circuit.n2.V"] = 700
    /\ out["circuit.R1.I"] = 98000
    /\ out["circuit.R2.I"] = 910
    /\ out["circuit.D1.I"] = 561
    /\ res["circuit.n1"] = out["batt_balance.I"] - 98000 - 910
    /\ res["circuit.n2"] = 910 - 561

\* What the evaluation at position c of the sweep writes
Written(c) ==
    CASE c = "R1" -> "circuit.R1.I"
      [] c = "R2" -> "circuit.R2.I"
      [] c = "D1" -> "circuit.D1.I"
      [] c = "dV" -> "batt_deltaV.dV"
      [] c = "n1" -> "circuit.n1"
      [] c = "n2" -> "circuit.n2"
      [] c = "bal" -> "batt_balance"
      [] OTHER -> "none"

\* C8: evaluating a component changes only that component's own result:
\* compute writes only its outputs['I'], apply_nonlinear only its
\* residuals['V']; node voltages and the other unknowns change only in a
\* solver step, and the script (its options and wiring) never changes.
C8_Frame ==
    [][ /\ file' = file
        /\ \A n \in OutputNames \ {Written(pc)} :
              out'[n] # out[n] => pc = "check"
        /\ \A r \in ResidualNames \ {Written(pc)} : res'[r] = res[r]
        /\ pc = "check" =>
              /\ res' = res
              /\ \A n \in OutputNames \ {"circuit.n1.V", "circuit.n2.V", "batt_balance.I"} :
                    out'[n] = out[n]
      ]_vars

\* Components have been evaluated, and a solver step has moved the voltages
C8_Witness ==
    /\ file = "circuitBat"
    /\ iter >= 1
    /\ pc = "check"
    /\ out["circuit.n1.V"] = 1500
    /\ out["circuit.R1.I"] = 15000
    /\ res["circuit.n2"] # 0

\* Position of the run: the index in the sweep, then the solver's check,
\* then the end of run_model
C9_Pos ==
    CASE pc = "check" -> 8
      [] pc = "halt" -> 9
      [] OTHER -> CHOOSE k \in DOMAIN Sweep(file) : Sweep(file)[k] = pc

\* Work left: iterations, then line search steps, then positions
C9_Rank == ((20 - iter) * 11 + (10 - ls)) * 10 + (9 - C9_Pos)

\* C9: the Newton solve terminates: at most 20 Newton iterations, in the
\* battery variant at most 10 line search steps in each; every step of the
\* run uses up some of that bounded budget, so no run goes on forever, and a
\* run is over exactly when it has converged, run out of iterations or
\* raised an exception.
C9_Terminates ==
    /\ [](/\ iter <= 20
          /\ ls <= 10
          /\ C9_Rank >= 0
          /\ (pc = "halt") = (status \in {"converged", "failed", "error"}))
    /\ [][C9_Rank' < C9_Rank]_vars

\* A run that used every iteration and every line search step and stopped
C9_Witness == status = "failed" /\ iter = 20 /\ ls = 10

\* C10: running circuit.py never ends in an error raised by the component
\* code: every evaluation of Diode.compute yields a current.
C10_NoComponentError == status # "error"

=============================================================================
